---- MODULE Spec2Model ----
\* Model of the RISC-V PLIC driver in src/interrupts/plic.c.
\*
\* A uint32_t is modelled as the set of positions of its one-bits (a subset of
\* 0..31), so that all 32 bits are representable and |, &, ~ and << are the
\* set operations they are on bit vectors.  The register file is a function
\* from byte address to word.  The claim/complete register is a device
\* register: a read claims, a write completes.
EXTENDS Integers, FiniteSets, Sequences, TLC

\* ------------------------------------------------------------------ bounds
MaxOps == 2

\* -------------------------------------------------------- program constants
PLIC_IOBASE == 201326592
PLIC_SRCCNT == 1024
PLIC_PRIO_MIN == 1
PLIC_PRIO_MAX == 7

pending == PLIC_IOBASE + 4096
enable == PLIC_IOBASE + 8192
threshold == PLIC_IOBASE + 2097152
claim == PLIC_IOBASE + 2097156

\* ------------------------------------------------------ 32-bit arithmetic
Bits == 0..31

\* the word whose value is n, 0 <= n < 2^31
U32(n) == {b \in 0..30 : (n \div 2^b) % 2 = 1}

\* conversion of a C int to uint32_t (two's complement for negatives)
IntToU32(n) == IF n >= 0 THEN U32(n) ELSE Bits \ U32(-n - 1)

RECURSIVE Val(_)
\* numeric value of a word below 2^31
Val(w) == IF w = {} THEN 0
          ELSE LET b == CHOOSE x \in w : TRUE IN 2^b + Val(w \ {b})

\* conversion of a uint32_t to a C int
U32ToInt(w) == IF 31 \in w THEN -Val(Bits \ w) - 1 ELSE Val(w)

\* unsigned a < b
ULt(a, b) == \E i \in b \ a : \A j \in (i + 1)..31 : (j \in a) <=> (j \in b)

\* (1 << n) for 0 <= n <= 31, as the compiler produces it
Shl1(n) == {n}
BitOr(a, b) == a \cup b
BitAnd(a, b) == a \cap b
BitNot(a) == Bits \ a

\* ------------------------------------------------------------ the device
\* word addresses backed by the register file: priority 0..SRCCNT-1, the
\* pending bitmap and the word after it, the context-0 enable bitmap and the
\* word after it (context 1's first enable word), the context-0 threshold
PrioWords == {PLIC_IOBASE + 4 * i : i \in 0..(PLIC_SRCCNT - 1)}
PendWords == {pending + 4 * k : k \in 0..(PLIC_SRCCNT \div 32)}
EnabWords == {enable + 4 * k : k \in 0..(PLIC_SRCCNT \div 32)}
MemAddrs == PrioWords \cup PendWords \cup EnabWords \cup {threshold}

Sources == 1..(PLIC_SRCCNT - 1)

\* mem       the register file
\* claimed   sources claimed and not yet completed
\* asserted  sources whose interrupt line is high
\* writes    the stores <<address, value>> of the last call
\* ret       the result of the last call
\* lastOp    the last call and its arguments
\* enableBefore  the context-0 enable bitmap before the last call
\* undone    the last call was disable_source_for_context(c, s) right after
\*           enable_source_for_context(c, s)
\* nops      number of calls made
\* pc        position and parameters of the claim/complete scenario
VARIABLES mem, claimed, asserted, writes, ret, lastOp, enableBefore, undone,
          nops, pc

vars == <<mem, claimed, asserted, writes, ret, lastOp, enableBefore, undone,
          nops, pc>>

PrioOf(m, s) == m[PLIC_IOBASE + 4 * s]
PendBit(m, s) == (s % 32) \in m[pending + 4 * (s \div 32)]
EnabBit(m, s) == (s % 32) \in m[enable + 4 * (s \div 32)]
EnableBitmap(m) == [k \in 0..(PLIC_SRCCNT \div 32 - 1) |-> m[enable + 4 * k]]

\* a driver call works on the device state st = [mem, wr, claimed]; wr lists
\* the stores the call performs, in program order
Store(st, addr, v) ==
    [st EXCEPT !.mem[addr] = v, !.wr = Append(@, <<addr, v>>)]

\* sources the controller can hand out: pending, enabled for context 0,
\* priority above the threshold, not already claimed
Eligible(st) ==
    {s \in Sources : /\ PendBit(st.mem, s)
                     /\ EnabBit(st.mem, s)
                     /\ s \notin st.claimed
                     /\ ULt(st.mem[threshold], PrioOf(st.mem, s))}

\* the highest priority among E, and the lowest id that has it
Best(E, m) ==
    LET P == {PrioOf(m, s) : s \in E}
        top == CHOOSE p \in P : \A q \in P : ~ULt(p, q)
        T == {s \in E : PrioOf(m, s) = top}
    IN CHOOSE s \in T : \A t \in T : s <= t

\* read of the claim register
HwClaimRead(st) ==
    LET E == Eligible(st) IN
    IF E = {} THEN [st |-> st, val |-> U32(0)]
    ELSE LET s == Best(E, st.mem)
             a == pending + 4 * (s \div 32)
         IN [st |-> [st EXCEPT !.mem[a] = @ \ {s % 32},
                               !.claimed = @ \cup {s}],
             val |-> U32(s)]

\* write of the claim register
HwCompleteWrite(st, v) ==
    LET logged == [st EXCEPT !.wr = Append(@, <<claim, v>>)] IN
    IF 31 \notin v /\ Val(v) \in st.claimed
    THEN LET s == Val(v)
             a == pending + 4 * (s \div 32)
         IN [logged EXCEPT !.claimed = @ \ {s},
                           !.mem[a] = IF s \in asserted THEN @ \cup {s % 32} ELSE @]
    ELSE logged

\* an interrupt line goes high: the gateway latches it unless the source is
\* in service
HwAssert(m, s) ==
    IF s \in claimed THEN m
    ELSE [m EXCEPT ![pending + 4 * (s \div 32)] = @ \cup {s % 32}]

\* --------------------------------------------------- internal functions
plic_set_source_priority(st, srcno, level) ==
    IF ULt(U32(PLIC_SRCCNT), srcno) \/ srcno = U32(0)
       \/ ULt(level, U32(PLIC_PRIO_MIN))
    THEN st
    ELSE Store(st, PLIC_IOBASE + 4 * Val(srcno), level)

plic_source_pending(st, srcno) ==
    IF ULt(U32(PLIC_SRCCNT), srcno) THEN 0
    ELSE LET pend == BitAnd(st.mem[pending + 4 * (Val(srcno) \div 32)],
                            Shl1(Val(srcno) % 32))
         IN IF ULt(U32(0), pend) THEN 1 ELSE 0

\* variant: the mask is assigned instead of or-ed in
plic_enable_source_for_context_assign(st, ctxno, srcno) ==
    IF ctxno # U32(0) \/ ULt(U32(PLIC_SRCCNT), srcno) \/ ~ULt(U32(0), srcno)
    THEN st
    ELSE LET a == enable + 4 * (Val(srcno) \div 32)
         IN Store(st, a, Shl1(Val(srcno) % 32))

plic_enable_source_for_context(st, ctxno, srcno) ==
    IF ctxno # U32(0) \/ ULt(U32(PLIC_SRCCNT), srcno) \/ ~ULt(U32(0), srcno)
    THEN st
    ELSE LET a == enable + 4 * (Val(srcno) \div 32)
         IN Store(st, a, BitOr(st.mem[a], Shl1(Val(srcno) % 32)))

\* variant: the mask is not complemented
plic_disable_source_for_context_nocompl(st, ctxno, srcid) ==
    IF ctxno # U32(0) \/ ULt(U32(PLIC_SRCCNT), srcid) \/ ~ULt(U32(0), srcid)
    THEN st
    ELSE LET a == enable + 4 * (Val(srcid) \div 32)
         IN Store(st, a, BitAnd(st.mem[a], Shl1(Val(srcid) % 32)))

plic_disable_source_for_context(st, ctxno, srcid) ==
    IF ctxno # U32(0) \/ ULt(U32(PLIC_SRCCNT), srcid) \/ ~ULt(U32(0), srcid)
    THEN st
    ELSE LET a == enable + 4 * (Val(srcid) \div 32)
         IN Store(st, a, BitAnd(st.mem[a], BitNot(Shl1(Val(srcid) % 32))))

\* variant: the level is clamped to PLIC_PRIO_MAX
plic_set_context_threshold_clamped(st, ctxno, level) ==
    IF ctxno # U32(0) THEN st
    ELSE Store(st, threshold,
               IF ULt(U32(PLIC_PRIO_MAX), level) THEN U32(PLIC_PRIO_MAX) ELSE level)

plic_set_context_threshold(st, ctxno, level) ==
    IF ctxno # U32(0) THEN st
    ELSE Store(st, threshold, level)

plic_claim_context_interrupt(st, ctxno) ==
    IF ctxno # U32(0) THEN [st |-> st, val |-> U32(0)]
    ELSE HwClaimRead(st)

plic_complete_context_interrupt(st, ctxno, srcno) ==
    IF ctxno # U32(0) \/ ULt(U32(PLIC_SRCCNT), srcno) \/ ~ULt(U32(0), srcno)
    THEN st
    ELSE HwCompleteWrite(st, srcno)

\* --------------------------------------------------- exported functions
RECURSIVE InitLoop(_, _, _)
\* iterations lo..hi of the loop of plic_init, in order: the state after
\* lo..mid is computed first, then mid+1..hi run on it
InitLoop(st, lo, hi) ==
    IF lo = hi
    THEN plic_enable_source_for_context(
             plic_set_source_priority(st, IntToU32(lo), U32(0)),
             U32(0), IntToU32(lo))
    ELSE LET mid == (lo + hi) \div 2
             left == InitLoop(st, lo, mid)
         IN IF left.claimed = {-1} THEN left ELSE InitLoop(left, mid + 1, hi)

plic_init(st) == InitLoop(st, 0, PLIC_SRCCNT - 1)

\* variant: the arguments are passed in the wrong order
plic_enable_irq_swapped(st, irqno, prio) ==
    plic_set_source_priority(st, IntToU32(prio), IntToU32(irqno))

plic_enable_irq(st, irqno, prio) ==
    plic_set_source_priority(st, IntToU32(irqno), IntToU32(prio))

plic_disable_irq(st, irqno) ==
    IF 0 < irqno THEN plic_set_source_priority(st, IntToU32(irqno), U32(0))
    ELSE st

plic_claim_irq(st) ==
    LET r == plic_claim_context_interrupt(st, U32(0))
    IN [st |-> r.st, val |-> U32ToInt(r.val)]

plic_close_irq(st, irqno) ==
    plic_complete_context_interrupt(st, U32(0), IntToU32(irqno))

\* ------------------------------------------------------------- inputs
SrcArgs == {U32(0), U32(5), U32(1023), U32(1024), U32(1025)}
LevelArgs == {U32(0), U32(3), U32(107)}
CtxSrcArgs == ({U32(0)} \X SrcArgs) \cup {<<U32(1), U32(5)>>}
CtxLevelArgs == ({U32(0)} \X LevelArgs) \cup {<<U32(1), U32(3)>>}
CtxArgs == {U32(0), U32(1)}
IrqArgs == {-1, 0, 5, 1024}
PrioArgs == {-1, 3}

RegFile(fp, fq, fe, ft) ==
    [a \in MemAddrs |-> IF a = threshold THEN ft
                        ELSE IF a >= enable THEN fe
                        ELSE IF a >= pending THEN fq
                        ELSE fp]

\* the record of a call: a, b are the uint32_t arguments of an internal
\* function, ia, ib the int arguments of an exported one
Internal(op, a, b) == [op |-> op, a |-> a, b |-> b, ia |-> 0, ib |-> 0]
Exported(op, ia, ib) == [op |-> op, a |-> {}, b |-> {}, ia |-> ia, ib |-> ib]
NoOp == Exported("none", 0, 0)

\* the result of a call: i an int result, u a uint32_t result
Void == [i |-> 0, u |-> {}]
IntRes(n) == [i |-> n, u |-> {}]
U32Res(w) == [i |-> 0, u |-> w]
Free == [at |-> "free", s |-> 0, p |-> 0, sole |-> FALSE, released |-> FALSE]

InitDevice(fp, fq, fe, ft) ==
    /\ mem = RegFile(fp, fq, fe, ft)
    /\ claimed = {}
    /\ asserted = {}
    /\ writes = <<>>
    /\ ret = Void
    /\ lastOp = NoOp
    /\ enableBefore = EnableBitmap(mem)
    /\ undone = FALSE
    /\ nops = 0

\* register files the driver may find: priorities all 0 under threshold 9 or
\* all 5 under threshold 0, bitmaps all clear or with the bits of some
\* sources set (pending: bits 0 and 31 of every word, enable: bits 0 and 5
\* of every word)
Init ==
    /\ \E ft \in {<<U32(0), U32(9)>>, <<U32(5), U32(0)>>},
          fb \in {<<U32(0), U32(0)>>, <<{0, 31}, {0, 5}>>} :
          InitDevice(ft[1], fb[1], fb[2], ft[2])
    /\ pc = Free

St == [mem |-> mem, wr |-> <<>>, claimed |-> claimed]

\* one call: the device state after it, its result, and the record of it
Call(call, st, r) ==
    /\ mem' = st.mem
    /\ claimed' = st.claimed
    /\ writes' = st.wr
    /\ ret' = r
    /\ lastOp' = call
    /\ enableBefore' = EnableBitmap(mem)
    /\ undone' = /\ call.op = "disable_source_for_context"
                 /\ lastOp.op = "enable_source_for_context"
                 /\ lastOp.a = call.a
                 /\ lastOp.b = call.b
    /\ nops' = nops + 1
    /\ UNCHANGED asserted

Ready == nops < MaxOps /\ pc.at = "free"

SetSourcePriority ==
    /\ Ready
    /\ \E srcno \in SrcArgs, level \in LevelArgs :
          Call(Internal("set_source_priority", srcno, level),
               plic_set_source_priority(St, srcno, level), Void)
    /\ UNCHANGED pc

SourcePending ==
    /\ Ready
    /\ \E srcno \in SrcArgs :
          Call(Internal("source_pending", srcno, {}), St,
               IntRes(plic_source_pending(St, srcno)))
    /\ UNCHANGED pc

EnableSourceForContext ==
    /\ Ready
    /\ \E cs \in CtxSrcArgs :
          Call(Internal("enable_source_for_context", cs[1], cs[2]),
               plic_enable_source_for_context(St, cs[1], cs[2]), Void)
    /\ UNCHANGED pc

DisableSourceForContext ==
    /\ Ready
    /\ \E cs \in CtxSrcArgs :
          Call(Internal("disable_source_for_context", cs[1], cs[2]),
               plic_disable_source_for_context(St, cs[1], cs[2]), Void)
    /\ UNCHANGED pc

SetContextThreshold ==
    /\ Ready
    /\ \E cl \in CtxLevelArgs :
          Call(Internal("set_context_threshold", cl[1], cl[2]),
               plic_set_context_threshold(St, cl[1], cl[2]), Void)
    /\ UNCHANGED pc

ClaimContextInterrupt ==
    /\ Ready
    /\ \E ctxno \in CtxArgs :
          LET r == plic_claim_context_interrupt(St, ctxno)
          IN Call(Internal("claim_context_interrupt", ctxno, {}), r.st,
                  U32Res(r.val))
    /\ UNCHANGED pc

CompleteContextInterrupt ==
    /\ Ready
    /\ \E cs \in CtxSrcArgs :
          Call(Internal("complete_context_interrupt", cs[1], cs[2]),
               plic_complete_context_interrupt(St, cs[1], cs[2]), Void)
    /\ UNCHANGED pc

\* init runs once, at boot, before any other call
PlicInit ==
    /\ Ready
    /\ nops = 0
    /\ Call(Exported("init", 0, 0), plic_init(St), Void)
    /\ UNCHANGED pc

EnableIrq ==
    /\ Ready
    /\ \E irqno \in IrqArgs, prio \in PrioArgs :
          Call(Exported("enable_irq", irqno, prio),
               plic_enable_irq(St, irqno, prio), Void)
    /\ UNCHANGED pc

DisableIrq ==
    /\ Ready
    /\ \E irqno \in IrqArgs :
          Call(Exported("disable_irq", irqno, 0), plic_disable_irq(St, irqno), Void)
    /\ UNCHANGED pc

ClaimIrq ==
    /\ Ready
    /\ LET r == plic_claim_irq(St)
       IN Call(Exported("claim_irq", 0, 0), r.st, IntRes(r.val))
    /\ UNCHANGED pc

CloseIrq ==
    /\ Ready
    /\ \E irqno \in IrqArgs :
          Call(Exported("close_irq", irqno, 0), plic_close_irq(St, irqno), Void)
    /\ UNCHANGED pc

Next ==
    \/ SetSourcePriority
    \/ SourcePending
    \/ EnableSourceForContext
    \/ DisableSourceForContext
    \/ SetContextThreshold
    \/ ClaimContextInterrupt
    \/ CompleteContextInterrupt
    \/ PlicInit
    \/ EnableIrq
    \/ DisableIrq
    \/ ClaimIrq
    \/ CloseIrq

Spec == Init /\ [][Next]_vars

\* ------------------------------------------- the claim/complete scenario
\* init(); enable_irq(s, p); source s asserts; claim_irq(); source s may
\* deassert; close_irq(s); claim_irq().  Or, with nothing asserted,
\* claim_irq() right after enable_irq.
ScnSources == {1, 5, 1023}
ScnPrios == {1, 3, 107}

PendingSet(m) == {t \in Sources : PendBit(m, t)}

InitScenario ==
    /\ \E fp \in {U32(0), U32(5)}, ft \in {U32(0), U32(2), U32(9)},
          fb \in {<<U32(0), U32(0)>>, <<U32(0), {0, 5}>>, <<{0, 31}, {0, 5}>>} :
          InitDevice(fp, fb[1], fb[2], ft)
    /\ \E s \in ScnSources, p \in ScnPrios :
          pc = [at |-> "start", s |-> s, p |-> p, sole |-> FALSE,
                released |-> FALSE]

ScnInit ==
    /\ pc.at = "start"
    /\ Call(Exported("init", 0, 0), plic_init(St), Void)
    /\ pc' = [pc EXCEPT !.at = "inited"]

ScnEnableIrq ==
    /\ pc.at = "inited"
    /\ Call(Exported("enable_irq", pc.s, pc.p),
            plic_enable_irq(St, pc.s, pc.p), Void)
    /\ pc' = [pc EXCEPT !.at = "enabled"]

ScnAssert ==
    /\ pc.at = "enabled"
    /\ mem' = HwAssert(mem, pc.s)
    /\ asserted' = asserted \cup {pc.s}
    /\ pc' = [pc EXCEPT !.at = "asserted"]
    /\ UNCHANGED <<claimed, writes, ret, lastOp, enableBefore, undone, nops>>

ScnClaimIdle ==
    /\ pc.at = "enabled"
    /\ LET r == plic_claim_irq(St)
       IN Call(Exported("claim_irq", 0, 0), r.st, IntRes(r.val))
    /\ pc' = [pc EXCEPT !.at = "idle", !.sole = (PendingSet(mem) = {})]

ScnClaimIrq ==
    /\ pc.at = "asserted"
    /\ LET r == plic_claim_irq(St)
       IN Call(Exported("claim_irq", 0, 0), r.st, IntRes(r.val))
    /\ pc' = [pc EXCEPT !.at = "claimed", !.sole = (PendingSet(mem) = {pc.s})]

ScnDeassert ==
    /\ pc.at = "claimed"
    /\ asserted' = asserted \ {pc.s}
    /\ pc' = [pc EXCEPT !.at = "released", !.released = TRUE]
    /\ UNCHANGED <<mem, claimed, writes, ret, lastOp, enableBefore, undone, nops>>

ScnCloseIrq ==
    /\ pc.at \in {"claimed", "released"}
    /\ Call(Exported("close_irq", pc.s, 0), plic_close_irq(St, pc.s), Void)
    /\ pc' = [pc EXCEPT !.at = "closed"]

ScnClaimAgain ==
    /\ pc.at = "closed"
    /\ LET r == plic_claim_irq(St)
       IN Call(Exported("claim_irq", 0, 0), r.st, IntRes(r.val))
    /\ pc' = [pc EXCEPT !.at = "done"]

NextScenario ==
    \/ ScnInit
    \/ ScnEnableIrq
    \/ ScnAssert
    \/ ScnClaimIdle
    \/ ScnClaimIrq
    \/ ScnDeassert
    \/ ScnCloseIrq
    \/ ScnClaimAgain

SpecScenario == InitScenario /\ [][NextScenario]_vars

\* ================================================================ claims
ValidSrc(w) == ULt(U32(0), w) /\ ULt(w, U32(PLIC_SRCCNT))

Clamp(L) == IF ULt(L, U32(PLIC_PRIO_MIN)) THEN U32(PLIC_PRIO_MIN)
            ELSE IF ULt(U32(PLIC_PRIO_MAX), L) THEN U32(PLIC_PRIO_MAX)
            ELSE L

\* C1: after set_source_priority(s, L) with s in [1, SRCCNT-1], the priority
\* register of s holds clamp(L, PRIO_MIN, PRIO_MAX).
C1_Claim ==
    (lastOp.op = "set_source_priority" /\ ValidSrc(lastOp.a))
        => PrioOf(mem, Val(lastOp.a)) = Clamp(lastOp.b)

\* C2: after init(), every source in [1, SRCCNT-1] has priority PRIO_MIN and
\* its context-0 enable bit set.
C2_Claim ==
    lastOp.op = "init"
        => \A s \in Sources : PrioOf(mem, s) = U32(PLIC_PRIO_MIN) /\ EnabBit(mem, s)

\* C3: with a source id outside [1, SRCCNT-1], set_source_priority,
\* enable_source_for_context(0, .) and disable_source_for_context(0, .) leave
\* the whole register file as it was.
C3_Claim ==
    [][(\/ (lastOp'.op = "set_source_priority" /\ ~ValidSrc(lastOp'.a))
        \/ (/\ lastOp'.op \in {"enable_source_for_context",
                               "disable_source_for_context"}
            /\ lastOp'.a = U32(0)
            /\ ~ValidSrc(lastOp'.b)))
          => (mem' = mem /\ claimed' = claimed)]_vars

\* C4: enable_source_for_context(0, s) with s in [1, SRCCNT-1] sets bit
\* s mod 32 of enable word s div 32 and changes no other bit of that word and
\* no other register.
C4_EnableFrame ==
    [][(/\ lastOp'.op = "enable_source_for_context"
        /\ lastOp'.a = U32(0)
        /\ ValidSrc(lastOp'.b))
          => LET s == Val(lastOp'.b)
                 w == enable + 4 * (s \div 32)
             IN /\ \A b \in Bits :
                      (b \in mem'[w]) <=> (b = s % 32 \/ b \in mem[w])
                /\ \A a \in MemAddrs \ {w} : mem'[a] = mem[a]
                /\ claimed' = claimed]_vars

\* C4 witness: source 1023 enabled in a word that held other bits.
C4_Witness ==
    /\ lastOp = Internal("enable_source_for_context", U32(0), U32(1023))
    /\ mem[enable + 4 * 31] = {0, 5, 31}

\* C5 as stated: enable_source_for_context(0, s) then
\* disable_source_for_context(0, s) leaves the context-0 enable bitmap equal
\* to its value before the enable call.
C5_Claim ==
    [][(/\ lastOp.op = "enable_source_for_context"
        /\ lastOp'.op = "disable_source_for_context"
        /\ lastOp.a = U32(0)
        /\ lastOp'.a = U32(0)
        /\ lastOp'.b = lastOp.b)
          => EnableBitmap(mem') = enableBefore]_vars

\* C5 amended: after enable_source_for_context(0, s) then
\* disable_source_for_context(0, s), the context-0 enable bitmap is its value
\* before the enable call with the bit of s cleared when s is in
\* [1, SRCCNT-1], and that value unchanged for any other s.
C5_RoundTrip ==
    [][(/\ lastOp.op = "enable_source_for_context"
        /\ lastOp'.op = "disable_source_for_context"
        /\ lastOp.a = U32(0)
        /\ lastOp'.a = U32(0)
        /\ lastOp'.b = lastOp.b)
          => EnableBitmap(mem') =
                IF ValidSrc(lastOp.b)
                THEN LET s == Val(lastOp.b)
                     IN [enableBefore EXCEPT ![s \div 32] = @ \ {s % 32}]
                ELSE enableBefore]_vars

\* C5 witness: the round trip on source 5, whose bit was set before; bit 0 of
\* the word is kept, bit 5 is gone.
C5_Witness ==
    /\ undone
    /\ lastOp.a = U32(0)
    /\ lastOp.b = U32(5)
    /\ mem[enable] = {0}

\* C6: source_pending changes no register; it returns 1 exactly when the
\* pending bit of a source in [1, SRCCNT-1] is set, and 0 for every other id.
C6_Claim ==
    [][lastOp'.op = "source_pending"
          => /\ mem' = mem
             /\ claimed' = claimed
             /\ ret' = IntRes(IF ValidSrc(lastOp'.a) /\ PendBit(mem, Val(lastOp'.a))
                              THEN 1 ELSE 0)]_vars

\* C7: after init() and enable_irq(s, p) with p above the threshold, when s
\* is the only pending source claim_irq() returns s; close_irq(s) completes
\* it, and with s released the next claim_irq() returns 0; claim_irq() with
\* nothing pending returns 0.
C7_Scenario ==
    LET above == ULt(mem[threshold], IntToU32(pc.p)) IN
    /\ (pc.at = "claimed" /\ pc.sole /\ above) => ret = IntRes(pc.s)
    /\ (pc.at = "closed" /\ pc.sole /\ above) => pc.s \notin claimed
    /\ (pc.at = "done" /\ pc.sole /\ above /\ pc.released) => ret = IntRes(0)
    /\ (pc.at = "idle" /\ pc.sole) => ret = IntRes(0)

\* C7 witness: the scenario of source 5 at priority 3 ran to its end.
C7_Witness ==
    /\ pc = [at |-> "done", s |-> 5, p |-> 3, sole |-> TRUE, released |-> TRUE]
    /\ ULt(mem[threshold], U32(3))
    /\ ret = IntRes(0)
    /\ claimed = {}

\* C8: disable_irq(irq) with 1 <= irq <= SRCCNT-1 leaves PRIO_MIN in the
\* priority register of irq and changes nothing else; with irq <= 0 it
\* writes nothing.
C8_Claim ==
    [][lastOp'.op = "disable_irq"
          => LET irq == lastOp'.ia IN
             /\ (1 <= irq /\ irq <= PLIC_SRCCNT - 1)
                   => /\ mem' = [mem EXCEPT ![PLIC_IOBASE + 4 * irq] =
                                                   U32(PLIC_PRIO_MIN)]
                      /\ claimed' = claimed
             /\ irq <= 0
                   => (mem' = mem /\ claimed' = claimed /\ writes' = <<>>)]_vars

\* C9 as stated: after set_context_threshold(0, L) the threshold register
\* holds L clamped to [PRIO_MIN, PRIO_MAX]; with a context other than 0 no
\* register changes.
C9_Claim ==
    [][lastOp'.op = "set_context_threshold"
          => IF lastOp'.a = U32(0)
             THEN mem'[threshold] = Clamp(lastOp'.b)
             ELSE mem' = mem /\ claimed' = claimed]_vars

\* C9 amended: after set_context_threshold(0, L) the threshold register
\* holds L itself, unclamped, and nothing else changed; with a context other
\* than 0 no register changes.
C9_ThresholdRaw ==
    [][lastOp'.op = "set_context_threshold"
          => /\ claimed' = claimed
             /\ IF lastOp'.a = U32(0)
                THEN mem' = [mem EXCEPT ![threshold] = lastOp'.b]
                ELSE mem' = mem /\ writes' = <<>>]_vars

\* C9 witness: a level above PRIO_MAX stored as it is.
C9_Witness ==
    /\ lastOp = Internal("set_context_threshold", U32(0), U32(107))
    /\ mem[threshold] = U32(107)

\* C10: every store of every call goes to the priority register of a source
\* in [1, SRCCNT-1], to a context-0 enable word, to the context-0 threshold,
\* or to the claim/complete register with a source id in [1, SRCCNT-1].
C10_Claim ==
    \A i \in 1..Len(writes) :
        LET a == writes[i][1]
            v == writes[i][2]
        IN \/ \E s \in Sources : a = PLIC_IOBASE + 4 * s
           \/ \E k \in 0..(PLIC_SRCCNT \div 32 - 1) : a = enable + 4 * k
           \/ a = threshold
           \/ (a = claim /\ ValidSrc(v))

====
